---- MODULE Spec2Model ----
(***************************************************************************)
(* Zip::Leanify (src/formats/zip.cpp): in-place compaction of a ZIP        *)
(* archive held in one byte buffer.  The buffer is modelled byte for byte  *)
(* (addresses are 0-based offsets from fp_), the packed structs CDHeader   *)
(* and EOCD are their byte images, and every field is read and written at  *)
(* its offset in little-endian order, as the code does through memcpy and  *)
(* pointer casts.                                                          *)
(***************************************************************************)
EXTENDS Integers, Sequences, FiniteSets, TLC

\* ------------------------------------------------------------------ bounds
\* Largest number of entries of a generated archive.
MaxEntries == 2
\* Bytes of foreign memory modelled behind the buffer (fp_ + size_ onwards).
Slack == 40

\* ------------------------------------------------------- program constants
\* sizeof(CDHeader), sizeof(EOCD), the fixed part of a local file header and
\* the longest archive comment.
SizeofCDHeader == 46
SizeofEOCD == 22
LocalHeaderFixed == 30
MaxCommentLen == 65535

header_magic == <<80, 75, 3, 4>>
cd_magic == <<80, 75, 1, 2>>
eocd_magic == <<80, 75, 5, 6>>

\* ------------------------------------------------------------ byte memory
Max(S) == CHOOSE x \in S : \A y \in S : y <= x
MaxOf(a, b) == IF a >= b THEN a ELSE b

\* The byte at address a; an address outside the modelled memory reads 0.
Byte(m, a) == IF a >= 0 /\ a < Len(m) THEN m[a + 1] ELSE 0
Bytes(m, a, n) == [k \in 1..n |-> Byte(m, a + k - 1)]
U16(m, a) == Byte(m, a) + 256 * Byte(m, a + 1)
U32(m, a) == U16(m, a) + 65536 * U16(m, a + 2)
LE16(v) == <<v % 256, (v \div 256) % 256>>
LE32(v) == LE16(v % 65536) \o LE16((v \div 65536) % 65536)

\* memcpy of a byte string to address a.
Poke(m, a, bs) ==
    [k \in 1..Len(m) |->
        IF k - 1 >= a /\ k - 1 < a + Len(bs) THEN bs[k - a] ELSE m[k]]
\* memmove(dst, src, n): the source is read whole before the write.
Memmove(m, dst, src, n) == Poke(m, dst, Bytes(m, src, n))
\* memcmp(p, magic, 4) == 0
MagicAt(m, a, magic) == Bytes(m, a, 4) = magic

\* std::find_end(first, last, magic): the last match, or `last`.
FindEnd(m, first, last, magic) ==
    LET S == {p \in first..(last - 4) : MagicAt(m, p, magic)}
    IN IF S = {} THEN last ELSE Max(S)
\* std::search(first, last, magic): the first match, or `last`.
Search(m, first, last, magic) ==
    LET S == {p \in first..(last - 4) : MagicAt(m, p, magic)}
    IN IF S = {} THEN last ELSE CHOOSE p \in S : \A q \in S : p <= q

\* Bit tests on the 16-bit general purpose flag.
Bit3(flag) == (flag \div 8) % 2 = 1
Bit0(flag) == flag % 2 = 1
ClearBit3(flag) == IF Bit3(flag) THEN flag - 8 ELSE flag

\* ----------------------------------------------------- packed struct fields
CdFlag(h) == U16(h, 8)
CdMethod(h) == U16(h, 10)
CdCrc(h) == U32(h, 16)
CdCompSize(h) == U32(h, 20)
CdUncompSize(h) == U32(h, 24)
CdFilenameLen(h) == U16(h, 28)
CdExtraLen(h) == U16(h, 30)
CdCommentLen(h) == U16(h, 32)
CdLocalOffset(h) == U32(h, 42)

EocdDiskNum(e) == U16(e, 4)
EocdDiskCdStart(e) == U16(e, 6)
EocdNumRecords(e) == U16(e, 8)
EocdNumRecordsTotal(e) == U16(e, 10)
EocdCdSize(e) == U32(e, 12)
EocdCdOffset(e) == U32(e, 16)
EocdCommentLen(e) == U16(e, 20)

\* Fields of the local file header at address a of memory m.
LhFlag(m, a) == U16(m, a + 6)
LhMethod(m, a) == U16(m, a + 8)
LhCrc(m, a) == U32(m, a + 14)
LhCompSize(m, a) == U32(m, a + 18)
LhUncompSize(m, a) == U32(m, a + 22)
LhFilenameLen(m, a) == U16(m, a + 26)
LhExtraLen(m, a) == U16(m, a + 28)

\* ------------------------------------------------- external collaborators
\* mz_crc32(0, data, n): a position-weighted checksum stands for CRC-32.
RECURSIVE CrcSum(_, _)
CrcSum(d, k) == IF k = 0 THEN 0 ELSE CrcSum(d, k - 1) + k * d[k]
mz_crc32(d) == ((CrcSum(d, Len(d)) + 7 * Len(d)) % 251) + 1

\* tinfl_decompress_mem_to_heap: a run-length code stands for deflate; a
\* stream is a list of (count, byte) pairs.  NULL (ok = FALSE) on an empty or
\* odd-length stream or a zero count.
RECURSIVE Rep(_, _)
Rep(n, b) == IF n = 0 THEN <<>> ELSE <<b>> \o Rep(n - 1, b)
RECURSIVE Inflate(_)
Inflate(c) ==
    IF Len(c) < 2 THEN <<>> ELSE Rep(c[1], c[2]) \o Inflate(SubSeq(c, 3, Len(c)))
tinfl_decompress(c) ==
    LET ok == /\ Len(c) > 0
              /\ Len(c) % 2 = 0
              /\ \A k \in 1..Len(c) : (k % 2 = 1) => c[k] > 0
    IN [ok |-> ok, data |-> IF ok THEN Inflate(c) ELSE <<>>]

\* ZopfliDeflate: the shortest stream of the run-length code.
RECURSIVE RunLen(_, _)
RunLen(d, k) ==
    IF k < Len(d) /\ d[k + 1] = d[1] THEN RunLen(d, k + 1) ELSE k
RECURSIVE ZopfliDeflate(_)
ZopfliDeflate(d) ==
    IF d = <<>> THEN <<>>
    ELSE LET r == RunLen(d, 1)
         IN <<r, d[1]>> \o ZopfliDeflate(SubSeq(d, r + 1, Len(d)))

\* LeanifyFile(data): the recursive minifier returns content no longer than
\* its input; here it drops `cut` trailing bytes when the depth allows.
LeanifyFile(d, depth_ok, cut) ==
    IF depth_ok /\ Len(d) > cut THEN SubSeq(d, 1, Len(d) - cut) ELSE d

\* ----------------------------------------------------------- input files
\* The inputs are byte images of archives, assembled from entry descriptions.
\* A description names what the local file header holds (flag, method, lcrc,
\* lcomp, luncomp, lfnl, name, extra, payload) and what the central directory
\* record holds (cflag, cmethod, ccrc, ccomp, cuncomp, cdname, cextra,
\* ccomment, lho).  lho = -1 records the entry's true offset; emit = FALSE
\* lays down no local header for the record.
Entry(name, method, flag, payload, data) ==
    [name |-> name, cdname |-> name, lfnl |-> Len(name),
     flag |-> flag, cflag |-> flag, method |-> method, cmethod |-> method,
     lcrc |-> IF Bit3(flag) THEN 0 ELSE mz_crc32(data),
     lcomp |-> IF Bit3(flag) THEN 0 ELSE Len(payload),
     luncomp |-> IF Bit3(flag) THEN 0 ELSE Len(data),
     ccrc |-> mz_crc32(data), ccomp |-> Len(payload), cuncomp |-> Len(data),
     extra |-> <<>>, cextra |-> <<>>, ccomment |-> <<>>,
     payload |-> payload, emit |-> TRUE, lho |-> -1]

DataAB == <<65, 66>>
DataAAAA == <<97, 97, 97, 97>>
StreamAB == <<1, 65, 1, 66>>
StreamLong == <<2, 97, 2, 97>>
StreamShort == <<4, 97>>
StreamBroken == <<1, 97, 9>>
NameA == <<120>>
NameB == <<121, 122>>

Stored == Entry(NameA, 0, 0, DataAB, DataAB)
DeflRe == Entry(NameA, 8, 0, StreamLong, DataAAAA)
DeflRaw == Entry(NameA, 8, 0, StreamAB, DataAB)
DeflKeep == Entry(NameA, 8, 0, StreamShort, DataAAAA)

Kind ==
    [st |-> Stored,
     st_dd |-> Entry(NameA, 0, 8, DataAB, DataAB),
     st_empty |-> Entry(NameB, 0, 0, <<>>, <<>>),
     st_extra |-> [Stored EXCEPT !.extra = <<9, 9>>, !.cextra = <<7>>,
                                 !.ccomment = <<33>>],
     df_raw |-> DeflRaw,
     df_re |-> DeflRe,
     df_keep |-> DeflKeep,
     df_dd |-> Entry(NameA, 8, 8, StreamLong, DataAAAA),
     df_badcrc |-> [DeflRe EXCEPT !.lcrc = @ + 1, !.ccrc = @ + 1],
     df_cdcrc |-> [DeflRe EXCEPT !.ccrc = @ + 1],
     df_lcrc |-> [DeflRe EXCEPT !.lcrc = @ + 1],
     df_badlen |-> [DeflRe EXCEPT !.luncomp = 5, !.cuncomp = 5],
     df_cdlen |-> [DeflKeep EXCEPT !.cuncomp = 5, !.ccomp = 3],
     df_broken |-> Entry(NameA, 8, 0, StreamBroken, DataAB),
     df_empty |-> Entry(NameA, 8, 0, <<3, 0>>, <<>>),
     df_cdmeth |-> [DeflRe EXCEPT !.cmethod = 0],
     enc |-> Entry(NameA, 8, 1, StreamLong, DataAAAA),
     unk |-> Entry(NameB, 12, 0, DataAB, DataAB),
     fn_long |-> [Stored EXCEPT !.name = NameB, !.lfnl = 2],
     fn_short |-> [Stored EXCEPT !.cdname = NameB]]

LocalBytes(e) ==
    IF ~e.emit THEN <<>>
    ELSE header_magic \o LE16(20) \o LE16(e.flag) \o LE16(e.method)
         \o LE16(0) \o LE16(0) \o LE32(e.lcrc) \o LE32(e.lcomp)
         \o LE32(e.luncomp) \o LE16(e.lfnl) \o LE16(Len(e.extra))
         \o e.name \o e.extra \o e.payload

CdBytes(e, off, magic) ==
    magic \o LE16(20) \o LE16(20) \o LE16(e.cflag) \o LE16(e.cmethod)
    \o LE16(0) \o LE16(0) \o LE32(e.ccrc) \o LE32(e.ccomp) \o LE32(e.cuncomp)
    \o LE16(Len(e.cdname)) \o LE16(Len(e.cextra)) \o LE16(Len(e.ccomment))
    \o LE16(0) \o LE16(0) \o LE32(0) \o LE32(off)
    \o e.cdname \o e.cextra \o e.ccomment

RECURSIVE LocalsUpTo(_, _)
LocalsUpTo(es, k) ==
    IF k = 0 THEN <<>> ELSE LocalsUpTo(es, k - 1) \o LocalBytes(es[k])

\* An archive description: stub bytes in front, the offsets recorded relative
\* to address `origin`, and deviations of the EOCD record and of the central
\* directory from the well-formed layout.
Plain(es) ==
    [stub |-> <<>>, origin |-> 0, entries |-> es,
     disk_num |-> 0, disk_cd_start |-> 0, nrec |-> Len(es), ntotal |-> Len(es),
     cdsize_delta |-> 0, cdoff_delta |-> 0, comment |-> <<>>, cut |-> 0,
     badmagic |-> {}, eocd_magic |-> eocd_magic]

RecordedOffset(a, k) ==
    IF a.entries[k].lho >= 0 THEN a.entries[k].lho
    ELSE Len(a.stub) + Len(LocalsUpTo(a.entries, k - 1)) - a.origin

RECURSIVE CdUpTo(_, _)
CdUpTo(a, k) ==
    IF k = 0 THEN <<>>
    ELSE CdUpTo(a, k - 1)
         \o CdBytes(a.entries[k], RecordedOffset(a, k),
                    IF k \in a.badmagic THEN <<80, 75, 1, 3>> ELSE cd_magic)

Build(a) ==
    LET locals == LocalsUpTo(a.entries, Len(a.entries))
        cd == CdUpTo(a, Len(a.entries))
        cdoff == Len(a.stub) + Len(locals) - a.origin + a.cdoff_delta
        eocd == a.eocd_magic \o LE16(a.disk_num) \o LE16(a.disk_cd_start)
                \o LE16(a.nrec) \o LE16(a.ntotal)
                \o LE32(Len(cd) + a.cdsize_delta) \o LE32(cdoff)
                \o LE16(Len(a.comment)) \o a.comment
        all == a.stub \o locals \o cd \o eocd
    IN SubSeq(all, 1, Len(all) - a.cut)

\* ------------------------------------------------------------------ state
VARIABLES
    input,          \* the file as given: [buf, stub, arch], never changed
    env,            \* is_fast, depth <= max_depth, and the choices the code
                    \* leaves to its collaborators and to the platform
    mem,            \* the bytes from fp_ on: the buffer, then foreign memory
    size,           \* size_ on entry (p_end = fp_ + size)
    pc,             \* position in Zip::Leanify
    p_eocd, eocd, cd_end, zip_offset, base_offset,
    p_read, p_write, cd_headers, i, idx,
    header_size, orig_comp_size, flag,
    size_,          \* the length returned
    log,            \* what each round of the local-header loop read and did
    hi              \* end of the highest address range the last step touched

vars == <<input, env, mem, size, pc, p_eocd, eocd, cd_end, zip_offset,
          base_offset, p_read, p_write, cd_headers, i, idx, header_size,
          orig_comp_size, flag, size_, log, hi>>

\* The state as one record, for the step functions below.
Cur ==
    [env |-> env, mem |-> mem, size |-> size, pc |-> pc, p_eocd |-> p_eocd,
     eocd |-> eocd, cd_end |-> cd_end, zip_offset |-> zip_offset,
     base_offset |-> base_offset, p_read |-> p_read, p_write |-> p_write,
     cd_headers |-> cd_headers, i |-> i, idx |-> idx,
     header_size |-> header_size, orig_comp_size |-> orig_comp_size,
     flag |-> flag, size_ |-> size_, log |-> log, hi |-> hi]

\* The state on entry to Zip::Leanify for a file `buf` (size_leanified = 0).
Start(buf, e) ==
    [env |-> e, mem |-> buf \o [k \in 1..Slack |-> e.fill], size |-> Len(buf),
     pc |-> "locate", p_eocd |-> 0, eocd |-> <<>>, cd_end |-> 0,
     zip_offset |-> 0, base_offset |-> 0, p_read |-> 0, p_write |-> 0,
     cd_headers |-> <<>>, i |-> 0, idx |-> 0, header_size |-> 0,
     orig_comp_size |-> 0, flag |-> 0, size_ |-> Len(buf), log |-> <<>>,
     hi |-> 0]

\* --------------------------------------------------- Zip::Leanify, by step
\* Format::Leanify(0): the buffer stays as it is and keeps its length.
FormatLeanify(s) ==
    [s EXCEPT !.mem = Memmove(s.mem, 0, 0, s.size), !.size_ = s.size,
              !.pc = "done", !.hi = 0]

EocdNotFound(pe, p_end) == pe = p_end
EocdPastEnd(pe, p_end) == pe + SizeofEOCD > p_end

\* Lines 60-72: find the EOCD record in the last 65535 + 4 bytes.
LocateEOCD(s) ==
    LET p_end == s.size
        p_searchstart == MaxOf(0, p_end - MaxCommentLen - 4)
        pe == FindEnd(s.mem, p_searchstart, p_end, eocd_magic)
    IN IF EocdNotFound(pe, p_end) \/ EocdPastEnd(pe, p_end)
       THEN FormatLeanify(s)
       ELSE [s EXCEPT !.p_eocd = pe, !.pc = "validate", !.hi = 0]

Unsupported(e) ==
    \/ EocdDiskNum(e) # 0
    \/ EocdDiskCdStart(e) # 0
    \/ EocdNumRecords(e) # EocdNumRecordsTotal(e)
\* The directory is measured against the end of the EOCD record instead.
CdTooLargeLax(ce, pe) == ce > pe + SizeofEOCD
CdTooLarge(ce, pe) == ce > pe

\* Lines 73-95: read the EOCD record, refuse split archives and a central
\* directory that overlaps the EOCD, find the first local header.
ValidateEOCD(s) ==
    LET e == Bytes(s.mem, s.p_eocd, SizeofEOCD)
        ce == EocdCdOffset(e) + EocdCdSize(e)
    IN IF Unsupported(e) \/ CdTooLarge(ce, s.p_eocd)
       THEN FormatLeanify([s EXCEPT !.eocd = e])
       ELSE [s EXCEPT
               !.eocd = e, !.cd_end = ce,
               !.zip_offset = Search(s.mem, 0, EocdCdOffset(e), header_magic),
               !.base_offset = 0, !.cd_headers = <<>>,
               !.p_read = EocdCdOffset(e), !.i = 0, !.hi = 0,
               !.pc = IF EocdNumRecords(e) = 0 THEN "sort" ELSE "parse"]

\* Line 104-105: the directory sits zip_offset bytes further than recorded.
\* The magic is looked for at the recorded place again.
BaseOffsetUnshifted(s) ==
    /\ s.i = 0
    /\ s.cd_end + s.zip_offset <= s.size
    /\ MagicAt(s.mem, s.p_read, cd_magic)
BaseOffsetFound(s) ==
    /\ s.i = 0
    /\ s.cd_end + s.zip_offset <= s.size
    /\ MagicAt(s.mem, s.p_read + s.zip_offset, cd_magic)

\* Lines 96-119: one round of the loop that copies the directory records.
ParseCDHeader(s) ==
    IF s.p_read + SizeofCDHeader > s.cd_end
    THEN [s EXCEPT !.pc = "sort", !.hi = 0]
    ELSE
      LET match == MagicAt(s.mem, s.p_read, cd_magic)
          shift == ~match /\ BaseOffsetFound(s)
          base == IF shift THEN s.zip_offset ELSE s.base_offset
          pr == IF shift THEN s.p_read + s.zip_offset ELSE s.p_read
          ce == IF shift THEN s.cd_end + s.zip_offset ELSE s.cd_end
          h == Bytes(s.mem, pr, SizeofCDHeader)
      IN IF ~match /\ ~shift
         THEN [s EXCEPT !.pc = "sort", !.hi = 0]
         ELSE [s EXCEPT
                 !.base_offset = base, !.cd_end = ce,
                 !.p_read = pr + SizeofCDHeader + CdFilenameLen(h)
                            + CdExtraLen(h) + CdCommentLen(h),
                 !.cd_headers = Append(s.cd_headers, h),
                 !.i = s.i + 1, !.hi = 0,
                 !.pc = IF s.i + 1 < EocdNumRecords(s.eocd)
                        THEN "parse" ELSE "sort"]

\* Line 124-125: std::sort by local_header_offset.  The order of records
\* with equal offsets is not fixed by std::sort; `rev` picks it.
RECURSIVE Insert(_, _, _)
Insert(sorted, h, rev) ==
    IF sorted = <<>> THEN <<h>>
    ELSE LET last == sorted[Len(sorted)]
             before == IF rev THEN CdLocalOffset(h) <= CdLocalOffset(last)
                       ELSE CdLocalOffset(h) < CdLocalOffset(last)
         IN IF before
            THEN Append(Insert(SubSeq(sorted, 1, Len(sorted) - 1), h, rev), last)
            ELSE Append(sorted, h)
RECURSIVE SortUpTo(_, _, _)
SortUpTo(hs, k, rev) ==
    IF k = 0 THEN <<>> ELSE Insert(SortUpTo(hs, k - 1, rev), hs[k], rev)
SortByOffset(hs, rev) == SortUpTo(hs, Len(hs), rev)

\* Line 263: the local-header loop is over; the directory starts at p_write.
BeginDirectory(s) ==
    [s EXCEPT !.eocd = Poke(s.eocd, 16, LE32(s.p_write - s.base_offset)),
              !.idx = 1,
              !.pc = IF s.cd_headers = <<>> THEN "eocd" ELSE "directory"]

\* Lines 120-130: sort, keep the bytes before the first local header.
SortHeaders(s) ==
    LET t == [s EXCEPT !.cd_headers = SortByOffset(s.cd_headers, s.env.tie_rev),
                       !.mem = Memmove(s.mem, 0, 0, s.zip_offset),
                       !.p_write = s.zip_offset, !.idx = 1, !.hi = 0,
                       !.pc = "header"]
    IN IF t.cd_headers = <<>> THEN BeginDirectory(t) ELSE t

\* The loop `for (CDHeader& cd_header : cd_headers)` moves to its next round.
NextEntry(s) ==
    IF s.idx < Len(s.cd_headers)
    THEN [s EXCEPT !.idx = s.idx + 1, !.pc = "header"]
    ELSE BeginDirectory(s)

\* What one round of the local-header loop read and did: the directory record
\* it took (cdIn), the header bytes it read (hdrIn) at rdH and the header it
\* left at wrH before the payload was looked at (hdr), the payload bytes it
\* read (src) at rdP, where it wrote them (wrP to wrEnd) and on which branch.
LogEntry(outcome, cd, rd, wr, hs, hdrIn, hdr, fg) ==
    [outcome |-> outcome, cdIn |-> cd, rdH |-> rd, wrH |-> wr, hs |-> hs,
     hdrIn |-> hdrIn, hdr |-> hdr, flagIn |-> fg, rdP |-> 0, wrP |-> 0,
     wrEnd |-> 0, src |-> <<>>, branch |-> "none"]

\* Line 135: the local header is not in the buffer or lacks its magic.
InvalidLocalHeader(m, pr, p_end) ==
    pr + LocalHeaderFixed > p_end \/ ~MagicAt(m, pr, header_magic)

\* Line 147: the header is moved with the file name the local header declares.
\* The directory's filename_len is taken instead.
HeaderSizeByDirectory(filename_length, cd) == LocalHeaderFixed + CdFilenameLen(cd)
HeaderSize(filename_length, cd) == LocalHeaderFixed + filename_length

\* Lines 175-183: clear bit 3 and take crc and sizes from the directory.
\* The crc is left as the local header has it.
FixDataDescriptorNoCrc(m, hp, cd) ==
    LET m1 == Poke(m, hp + 6, LE16(ClearBit3(LhFlag(m, hp))))
        m3 == Poke(m1, hp + 18, LE32(CdCompSize(cd)))
    IN Poke(m3, hp + 22, LE32(CdUncompSize(cd)))
FixDataDescriptor(m, hp, cd) ==
    LET m1 == Poke(m, hp + 6, LE16(ClearBit3(LhFlag(m, hp))))
        m2 == Poke(m1, hp + 14, LE32(CdCrc(cd)))
        m3 == Poke(m2, hp + 18, LE32(CdCompSize(cd)))
    IN Poke(m3, hp + 22, LE32(CdUncompSize(cd)))

\* Lines 133-191: one round of the local-header loop up to the payload.
LocalHeaderStep(s) ==
    LET cd == s.cd_headers[s.idx]
        pr == s.base_offset + CdLocalOffset(cd)
    IN
    IF InvalidLocalHeader(s.mem, pr, s.size)
    THEN NextEntry([s EXCEPT
           !.p_read = pr, !.hi = 0,
           !.log = Append(s.log,
                          LogEntry("skip", cd, pr, s.p_write, 0, <<>>, <<>>, 0))])
    ELSE
      LET cd1 == Poke(cd, 42, LE32(s.p_write - s.base_offset))
          filename_length == LhFilenameLen(s.mem, pr)
          hs == HeaderSize(filename_length, cd)
      IN
      IF pr + hs > s.size
      THEN BeginDirectory([s EXCEPT
             !.p_read = pr, !.hi = 0,
             !.cd_headers[s.idx] = cd1,
             !.log = Append(s.log,
                            LogEntry("eofhdr", cd, pr, s.p_write, hs, <<>>, <<>>,
                                     0))])
      ELSE
        LET m1 == Memmove(s.mem, s.p_write, pr, hs)
            ex == LhExtraLen(m1, s.p_write)
            pr2 == pr + ex
            m2 == IF ex # 0 THEN Poke(m1, s.p_write + 28, LE16(0)) ELSE m1
            fg == LhFlag(m2, s.p_write)
            m3 == IF Bit3(fg) THEN FixDataDescriptor(m2, s.p_write, cd1) ELSE m2
            oc == LhCompSize(m3, s.p_write)
            t == [s EXCEPT
                    !.mem = m3, !.cd_headers[s.idx] = cd1,
                    !.header_size = hs, !.orig_comp_size = oc, !.flag = fg,
                    !.hi = s.p_write + hs]
            entry(o) == LogEntry(o, cd, pr, s.p_write, hs,
                                 Bytes(s.mem, pr, hs),
                                 Bytes(m3, s.p_write, hs), fg)
        IN IF pr2 + oc > s.size
           THEN BeginDirectory([t EXCEPT
                  !.p_read = pr2,
                  !.log = Append(s.log, entry("toolarge"))])
           ELSE [t EXCEPT
                  !.p_read = pr2 + hs, !.p_write = s.p_write + hs,
                  !.log = Append(s.log, entry("header")),
                  !.pc = "payload"]

\* Line 224: the stream does not inflate to what the local header records.
\* The checksum is not compared.
VerifyFailedNoCrc(dec, uncompressed_size, crc) ==
    ~dec.ok \/ Len(dec.data) # uncompressed_size
VerifyFailed(dec, uncompressed_size, crc) ==
    \/ ~dec.ok
    \/ Len(dec.data) # uncompressed_size
    \/ crc # mz_crc32(dec.data)

\* Lines 241 and 247: the representation written for a verified entry.
ChooseStore(new_uncomp_size, new_comp_size, orig) ==
    new_uncomp_size <= new_comp_size /\ new_uncomp_size <= orig
\* A recompressed stream of the same length replaces the original.
ChooseRecompressedOnTie(new_comp_size, orig) == new_comp_size <= orig
ChooseRecompressed(new_comp_size, orig) == new_comp_size < orig

\* Set crc32, compressed_size and uncompressed_size of the local header at
\* hp and of the directory record.
SetSizes(s, hp, crc, comp, uncomp) ==
    LET m1 == Poke(s.mem, hp + 14, LE32(crc))
        m2 == Poke(m1, hp + 18, LE32(comp))
        m3 == Poke(m2, hp + 22, LE32(uncomp))
        c1 == Poke(s.cd_headers[s.idx], 16, LE32(crc))
        c2 == Poke(c1, 20, LE32(comp))
        c3 == Poke(c2, 24, LE32(uncomp))
    IN [s EXCEPT !.mem = m3, !.cd_headers[s.idx] = c3]

\* Set compression_method of the local header and of the directory record.
SetMethod(s, hp, method) ==
    [s EXCEPT !.mem = Poke(s.mem, hp + 8, LE16(method)),
              !.cd_headers[s.idx] = Poke(s.cd_headers[s.idx], 10, LE16(method))]

Logged(s, branch, src) ==
    [s EXCEPT !.log[Len(s.log)] =
        [@ EXCEPT !.outcome = "compacted", !.rdP = s.p_read, !.wrP = s.p_write,
                  !.src = src, !.branch = branch]]

\* Lines 196-208: not deflate, or encrypted, or fast mode.
MovePayload(s, hp) ==
    LET oc == s.orig_comp_size
        src == Bytes(s.mem, s.p_read, oc)
    IN
    IF LhMethod(s.mem, hp) = 0 /\ s.env.depth_ok /\ ~Bit0(s.flag)
    THEN IF oc # 0
         THEN LET res == LeanifyFile(src, TRUE, s.env.cut)
                  t == [s EXCEPT !.mem = Poke(s.mem, s.p_write, res)]
                  u == SetSizes(t, hp, mz_crc32(Bytes(t.mem, s.p_write, Len(res))),
                                Len(res), Len(res))
              IN [Logged(u, "store", src) EXCEPT
                    !.p_write = s.p_write + LhCompSize(u.mem, hp),
                    !.hi = MaxOf(s.p_read + oc, s.p_write + Len(res))]
         ELSE [Logged(s, "store0", src) EXCEPT
                    !.p_write = s.p_write + LhCompSize(s.mem, hp), !.hi = 0]
    ELSE LET t == [s EXCEPT !.mem = Memmove(s.mem, s.p_write, s.p_read, oc)]
         IN [Logged(t, "move", src) EXCEPT
                    !.p_write = s.p_write + LhCompSize(t.mem, hp),
                    !.hi = MaxOf(s.p_read + oc, s.p_write + oc)]

\* Lines 211-259: deflate, recompressed with zopfli.
Recompress(s, hp) ==
    LET oc == s.orig_comp_size
        src == Bytes(s.mem, s.p_read, oc)
        dec == tinfl_decompress(src)
    IN
    IF LhUncompSize(s.mem, hp) = 0
    THEN LET t == SetMethod(s, hp, 0)
             u == [t EXCEPT
                     !.mem = Poke(t.mem, hp + 18, LE32(0)),
                     !.cd_headers[s.idx] = Poke(t.cd_headers[s.idx], 20, LE32(0))]
         IN [Logged(u, "empty", <<>>) EXCEPT !.hi = 0]
    ELSE IF VerifyFailed(dec, LhUncompSize(s.mem, hp), LhCrc(s.mem, hp))
    THEN LET t == [s EXCEPT !.mem = Memmove(s.mem, s.p_write, s.p_read, oc)]
         IN [Logged(t, "verifyfail", src) EXCEPT
                    !.p_write = s.p_write + oc,
                    !.hi = MaxOf(s.p_read + oc, s.p_write + oc)]
    ELSE
      LET buffer == LeanifyFile(dec.data, s.env.depth_ok, s.env.cut)
          new_uncomp_size == Len(buffer)
          out == ZopfliDeflate(buffer)
          new_comp_size == Len(out)
      IN
      IF ChooseStore(new_uncomp_size, new_comp_size, oc)
      THEN LET t == SetSizes(SetMethod(s, hp, 0), hp, mz_crc32(buffer),
                             new_uncomp_size, new_uncomp_size)
               u == [t EXCEPT !.mem = Poke(t.mem, s.p_write, buffer)]
           IN [Logged(u, "raw", src) EXCEPT
                 !.p_write = s.p_write + LhCompSize(u.mem, hp),
                 !.hi = MaxOf(s.p_read + oc, s.p_write + new_uncomp_size)]
      ELSE IF ChooseRecompressed(new_comp_size, oc)
      THEN LET t == SetSizes(s, hp, mz_crc32(buffer), new_comp_size,
                             new_uncomp_size)
               u == [t EXCEPT !.mem = Poke(t.mem, s.p_write, out)]
           IN [Logged(u, "recompressed", src) EXCEPT
                 !.p_write = s.p_write + LhCompSize(u.mem, hp),
                 !.hi = MaxOf(s.p_read + oc, s.p_write + new_comp_size)]
      ELSE LET t == [s EXCEPT !.mem = Memmove(s.mem, s.p_write, s.p_read, oc)]
           IN [Logged(t, "keep", src) EXCEPT
                 !.p_write = s.p_write + LhCompSize(t.mem, hp),
                 !.hi = MaxOf(s.p_read + oc, s.p_write + oc)]

\* Lines 193-260: the payload of the entry whose header was just moved.
PayloadStep(s) ==
    LET hp == s.p_write - s.header_size
        t == IF LhMethod(s.mem, hp) # 8 \/ Bit0(s.flag) \/ s.env.is_fast
             THEN MovePayload(s, hp)
             ELSE Recompress(s, hp)
    IN NextEntry([t EXCEPT !.log[Len(t.log)].wrEnd = t.p_write])

\* Lines 264-275: one directory record and its file name, which is copied
\* from the place the record's local_header_offset names.
WriteCDHeader(s) ==
    LET cd == s.cd_headers[s.idx]
        c1 == Poke(cd, 8, LE16(ClearBit3(CdFlag(cd))))
        c2 == Poke(Poke(c1, 30, LE16(0)), 32, LE16(0))
        m1 == Poke(s.mem, s.p_write, c2)
        from == s.base_offset + CdLocalOffset(c2) + LocalHeaderFixed
        n == CdFilenameLen(c2)
        m2 == Memmove(m1, s.p_write + SizeofCDHeader, from, n)
    IN [s EXCEPT
          !.cd_headers[s.idx] = c2, !.mem = m2,
          !.p_write = s.p_write + SizeofCDHeader + n,
          !.hi = MaxOf(s.p_write + SizeofCDHeader + n,
                       IF n = 0 THEN 0 ELSE from + n),
          !.idx = s.idx + 1,
          !.pc = IF s.idx < Len(s.cd_headers) THEN "directory" ELSE "eocd"]

\* Lines 277-286: the EOCD record; the buffer ends behind it.
WriteEOCD(s) ==
    LET n == Len(s.cd_headers)
        e1 == Poke(Poke(s.eocd, 8, LE16(n)), 10, LE16(n))
        e2 == Poke(e1, 12, LE32(s.p_write - s.base_offset - EocdCdOffset(s.eocd)))
        e3 == Poke(e2, 20, LE16(0))
    IN [s EXCEPT
          !.eocd = e3, !.mem = Poke(s.mem, s.p_write, e3),
          !.size_ = s.p_write + SizeofEOCD,
          !.hi = s.p_write + SizeofEOCD, !.pc = "done"]

\* Zip::Leanify from its current position to the next.
StepFn(s) ==
    CASE s.pc = "locate" -> LocateEOCD(s)
      [] s.pc = "validate" -> ValidateEOCD(s)
      [] s.pc = "parse" -> ParseCDHeader(s)
      [] s.pc = "sort" -> SortHeaders(s)
      [] s.pc = "header" -> LocalHeaderStep(s)
      [] s.pc = "payload" -> PayloadStep(s)
      [] s.pc = "directory" -> WriteCDHeader(s)
      [] s.pc = "eocd" -> WriteEOCD(s)
      [] OTHER -> s

\* Zip::Leanify run to its return.
RECURSIVE Run(_)
Run(s) == IF s.pc \in {"done", "fault"} THEN s ELSE Run(StepFn(s))

\* ----------------------------------------------------------------- inputs
DefaultEnv ==
    [is_fast |-> FALSE, depth_ok |-> TRUE, cut |-> 0, tie_rev |-> FALSE,
     fill |-> 0]

TailKinds == {Stored, DeflRe, Kind.st_dd}
AllKinds == {Kind[k] : k \in DOMAIN Kind}

RECURSIVE Tails(_)
Tails(n) ==
    IF n = 0 THEN {<<>>} ELSE {<<e>> \o t : e \in TailKinds, t \in Tails(n - 1)}

\* Archives of up to MaxEntries entries, one of them of any kind.
EntrySeqs ==
    UNION {{<<e>> \o t : e \in AllKinds, t \in Tails(n - 1)}
           \cup {<<t[1], e>> \o SubSeq(t, 2, n - 1) :
                     e \in AllKinds, t \in Tails(n - 1) \ {<<>>}}
           : n \in 1..MaxEntries}

WellFormed ==
    {[a |-> Plain(es),
      env |-> [DefaultEnv EXCEPT !.is_fast = f, !.depth_ok = d, !.cut = c]] :
        es \in EntrySeqs, f \in BOOLEAN, d \in BOOLEAN, c \in {0, 1}}

One == Plain(<<Stored>>)
Two == Plain(<<Stored, DeflRe>>)

\* Deviations of the EOCD record.
EocdCases ==
    {[One EXCEPT !.eocd_magic = <<80, 75, 5, 7>>],
     [One EXCEPT !.cut = 3],
     [One EXCEPT !.disk_num = 1],
     [One EXCEPT !.disk_cd_start = 1],
     [One EXCEPT !.ntotal = 2],
     [One EXCEPT !.cdsize_delta = 1],
     [One EXCEPT !.cdoff_delta = 1],
     [One EXCEPT !.comment = <<1, 2, 3>>],
     [One EXCEPT !.comment = eocd_magic],
     [Two EXCEPT !.disk_num = 1],
     [Two EXCEPT !.cdsize_delta = 2]}

\* Deviations of the central directory.
DirectoryCases ==
    {[Two EXCEPT !.badmagic = {1}],
     [Two EXCEPT !.badmagic = {2}],
     [One EXCEPT !.badmagic = {1}],
     [Two EXCEPT !.nrec = 3, !.ntotal = 3],
     [Two EXCEPT !.nrec = 0, !.ntotal = 0],
     [Two EXCEPT !.nrec = 1, !.ntotal = 1],
     [Two EXCEPT !.cdsize_delta = -1],
     [Two EXCEPT !.cdsize_delta = -10]}

\* Directory records whose offsets or sizes do not fit the local headers.
Second(e) == [e EXCEPT !.emit = FALSE, !.lho = 0]
OffsetCases ==
    {Plain(<<e, Second(e)>>) : e \in {Stored, DeflRe, Kind.unk}}
    \cup {Plain(<<Kind.df_dd, [Second(Kind.df_dd) EXCEPT !.ccrc = @ + 1]>>),
          Plain(<<Stored, [DeflRe EXCEPT !.lho = 190]>>),
          Plain(<<Stored, [DeflRe EXCEPT !.lho = 1]>>),
          Plain(<<[DeflRe EXCEPT !.lho = 150], Stored>>),
          Plain(<<[Stored EXCEPT !.lcomp = 250], Stored>>),
          Plain(<<Stored, [Stored EXCEPT !.lcomp = 250]>>),
          Plain(<<Stored, [Kind.st_dd EXCEPT !.ccomp = 250]>>),
          Plain(<<Stored, [Stored EXCEPT !.lfnl = 400]>>),
          Plain(<<[Kind.unk EXCEPT !.lcomp = 100]>>),
          Plain(<<[Kind.unk EXCEPT !.lcomp = 75]>>)}

Malformed ==
    {[a |-> a, env |-> DefaultEnv] : a \in EocdCases \cup DirectoryCases}
    \cup {[a |-> a, env |-> [DefaultEnv EXCEPT !.tie_rev = r, !.fill = b]] :
             a \in OffsetCases, r \in BOOLEAN, b \in {0, 170}}

\* Bytes in front of an archive: offsets left as they were (the origin moves
\* with the archive) or recorded from the start of the file.
Stubs ==
    {<<77>>, <<77, 90, 144>>, header_magic, <<77, 80, 75, 3, 4, 0>>,
     [k \in 1..30 |-> 77]}
Stubbed ==
    {[a |-> [Plain(es) EXCEPT !.stub = st, !.origin = IF adj THEN 0 ELSE Len(st)],
      env |-> [DefaultEnv EXCEPT !.cut = c]] :
        es \in {<<Stored>>, <<DeflRe, Stored>>, <<Kind.st_dd, DeflRaw>>},
        st \in Stubs, adj \in BOOLEAN, c \in {0, 1}}

Inputs == WellFormed \cup Malformed \cup Stubbed

\* The file of an input, the stub it was given (when the offsets were left
\* as they were) and the archive without it.
FileOf(x) ==
    LET unadjusted == x.a.origin = Len(x.a.stub)
    IN [buf |-> Build(x.a),
        stub |-> IF unadjusted THEN x.a.stub ELSE <<>>,
        arch |-> IF unadjusted
                 THEN Build([x.a EXCEPT !.stub = <<>>, !.origin = 0])
                 ELSE Build(x.a)]

\* ------------------------------------------------------------ the machine
Commit(t) ==
    /\ t.hi <= Len(mem)
    /\ mem' = t.mem /\ size' = t.size /\ pc' = t.pc /\ p_eocd' = t.p_eocd
    /\ eocd' = t.eocd /\ cd_end' = t.cd_end /\ zip_offset' = t.zip_offset
    /\ base_offset' = t.base_offset /\ p_read' = t.p_read
    /\ p_write' = t.p_write /\ cd_headers' = t.cd_headers /\ i' = t.i
    /\ idx' = t.idx /\ header_size' = t.header_size
    /\ orig_comp_size' = t.orig_comp_size /\ flag' = t.flag
    /\ size_' = t.size_ /\ log' = t.log /\ hi' = t.hi
    /\ UNCHANGED <<input, env>>

Init ==
    \E x \in Inputs :
        /\ input = FileOf(x)
        /\ env = x.env
        /\ LET s == Start(Build(x.a), x.env)
           IN /\ mem = s.mem /\ size = s.size /\ pc = s.pc /\ p_eocd = s.p_eocd
              /\ eocd = s.eocd /\ cd_end = s.cd_end /\ zip_offset = s.zip_offset
              /\ base_offset = s.base_offset /\ p_read = s.p_read
              /\ p_write = s.p_write /\ cd_headers = s.cd_headers /\ i = s.i
              /\ idx = s.idx /\ header_size = s.header_size
              /\ orig_comp_size = s.orig_comp_size /\ flag = s.flag
              /\ size_ = s.size_ /\ log = s.log /\ hi = s.hi

Locate == pc = "locate" /\ Commit(LocateEOCD(Cur))
Validate == pc = "validate" /\ Commit(ValidateEOCD(Cur))
ParseRecord == pc = "parse" /\ Commit(ParseCDHeader(Cur))
Sort == pc = "sort" /\ Commit(SortHeaders(Cur))
MoveHeader == pc = "header" /\ Commit(LocalHeaderStep(Cur))
MoveData == pc = "payload" /\ Commit(PayloadStep(Cur))
WriteRecord == pc = "directory" /\ Commit(WriteCDHeader(Cur))
WriteEnd == pc = "eocd" /\ Commit(WriteEOCD(Cur))

\* A step that reads or writes behind the end of the buffer has no defined
\* outcome: it may go through on the memory that lies there (the steps above)
\* or end the process here.
Fault ==
    /\ pc \notin {"done", "fault"}
    /\ StepFn(Cur).hi > size
    /\ pc' = "fault"
    /\ UNCHANGED <<input, env, mem, size, p_eocd, eocd, cd_end, zip_offset,
                   base_offset, p_read, p_write, cd_headers, i, idx,
                   header_size, orig_comp_size, flag, size_, log, hi>>

Next ==
    \/ Locate \/ Validate \/ ParseRecord \/ Sort \/ MoveHeader \/ MoveData
    \/ WriteRecord \/ WriteEnd \/ Fault

Spec == Init /\ [][Next]_vars

\* ------------------------------------------------------ reading the result
\* The EOCD checks of lines 64-83, stated on the file as given.
EocdPosition(buf) ==
    FindEnd(buf, MaxOf(0, Len(buf) - (MaxCommentLen + 4)), Len(buf), eocd_magic)
Rejected(buf) ==
    LET pe == EocdPosition(buf)
        e == Bytes(buf, pe, SizeofEOCD)
    IN \/ pe = Len(buf)
       \/ pe + SizeofEOCD > Len(buf)
       \/ EocdDiskNum(e) # 0
       \/ EocdDiskCdStart(e) # 0
       \/ EocdNumRecords(e) # EocdNumRecordsTotal(e)
       \/ EocdCdOffset(e) + EocdCdSize(e) > pe
DeclaredRecords(buf) == EocdNumRecords(Bytes(buf, EocdPosition(buf), SizeofEOCD))

\* The rounds of the local-header loop that wrote header and payload.
Compacted == {k \in 1..Len(log) : log[k].outcome = "compacted"}
\* The directory record of round k of the local-header loop (the loop walks
\* cd_headers in order, so round k handles cd_headers[k]).
Moved == {k \in 1..Len(log) : log[k].outcome \in {"toolarge", "header", "compacted"}}

\* The EOCD record at the end of the returned file and the directory before it.
OutEocd == Bytes(mem, size_ - SizeofEOCD, SizeofEOCD)
OutCdStart == base_offset + EocdCdOffset(OutEocd)
RECURSIVE RecordsFrom(_, _, _)
RecordsFrom(m, a, end) ==
    IF a + SizeofCDHeader > end \/ ~MagicAt(m, a, cd_magic) THEN <<>>
    ELSE <<a>> \o RecordsFrom(m, a + SizeofCDHeader
                                  + CdFilenameLen(Bytes(m, a, SizeofCDHeader)), end)
\* Addresses of the directory records of the returned file.
OutRecords == RecordsFrom(mem, OutCdStart, size_ - SizeofEOCD)

\* -------------------------------------------------------------- claims
\* C1: the returned length is never greater than the input length, whatever
\* the directory records declare.
C1_OutputNotLonger == pc = "done" => size_ <= size

\* C8: at every header move and every payload move or copy the write cursor
\* is at or before the read position.
C8_WriteNotPastRead ==
    \A k \in 1..Len(log) :
        /\ k \in Moved => log[k].wrH <= log[k].rdH
        /\ (k \in Compacted /\ log[k].branch \notin {"store0", "empty"})
              => log[k].wrP <= log[k].rdP

\* C3: an archive that passes the EOCD checks and declares records, none of
\* which is parsed, is returned as it was given.
C3_NothingParsedPassthrough ==
    (/\ pc = "done"
     /\ ~Rejected(input.buf)
     /\ DeclaredRecords(input.buf) > 0
     /\ cd_headers = <<>>)
    => size_ = size /\ Bytes(mem, 0, size) = input.buf

\* C4: the rewritten directory holds a record for exactly the entries whose
\* header and payload were written, and the EOCD record counts those.
C4_DirectoryListsWritten ==
    (pc = "done" /\ ~Rejected(input.buf))
    => /\ Len(OutRecords) = Cardinality(Compacted)
       /\ EocdNumRecords(OutEocd) = Cardinality(Compacted)
       /\ EocdNumRecordsTotal(OutEocd) = Cardinality(Compacted)

\* C2: when the EOCD magic is not found in the last 65535 + 4 bytes, or the
\* record runs past the end, or the archive is split, or the directory ends
\* behind the EOCD position, no byte of the buffer is rewritten, no step of
\* the compaction runs, and the file is returned with its length.
C2_RejectedUntouched ==
    Rejected(input.buf)
    => /\ Bytes(mem, 0, size) = input.buf
       /\ pc \in {"locate", "validate", "done"}
       /\ cd_headers = <<>> /\ log = <<>>
       /\ (pc = "done" => size_ = size)
\* An archive whose EOCD record was found and read, and was refused.
C2_Witness == pc = "done" /\ Rejected(input.buf) /\ eocd # <<>>

\* The directory records the loop of lines 264-275 has written so far.
DirStart == base_offset + EocdCdOffset(eocd)
DirRecords == RecordsFrom(mem, DirStart, p_write)
DirWritten ==
    IF pc = "directory" THEN idx - 1
    ELSE IF pc \in {"eocd", "done"} THEN Len(cd_headers) ELSE 0

Inflated(k) ==
    /\ k \in Compacted
    /\ LhMethod(log[k].hdr, 0) = 8
    /\ ~Bit0(log[k].flagIn)
    /\ ~env.is_fast
    /\ LhUncompSize(log[k].hdr, 0) # 0
\* The payload of round k does not inflate to `uncomp` bytes of checksum `crc`.
Mismatch(k, uncomp, crc) ==
    LET dec == tinfl_decompress(log[k].src)
    IN ~dec.ok \/ Len(dec.data) # uncomp \/ mz_crc32(dec.data) # crc
\* The fields of a directory record that describe the payload.
Described(cd) == <<CdMethod(cd), CdCrc(cd), CdCompSize(cd), CdUncompSize(cd)>>
\* Round k wrote the payload bytes it read, left header and directory record
\* as they were, advanced the write cursor by the payload's length, and the
\* loop went on.
PassedOn(k) ==
    /\ log[k].branch = "verifyfail"
    /\ Len(log[k].src) = LhCompSize(log[k].hdr, 0)
    /\ Bytes(mem, log[k].wrP, Len(log[k].src)) = log[k].src
    /\ Bytes(mem, log[k].wrH, log[k].hs) = log[k].hdr
    /\ Described(cd_headers[k]) = Described(log[k].cdIn)
    /\ log[k].wrEnd = log[k].wrP + Len(log[k].src)
    /\ k < Len(cd_headers)
          => Len(log) > k \/ (pc \in {"header", "fault"} /\ idx = k + 1)

Verified(k) ==
    /\ Inflated(k)
    /\ ~Mismatch(k, LhUncompSize(log[k].hdr, 0), LhCrc(log[k].hdr, 0))
\* The minified content of round k's payload and its recompressed stream.
Minified(k) ==
    LeanifyFile(tinfl_decompress(log[k].src).data, env.depth_ok, env.cut)
\* The header at wrH and the payload at wrP of round k, as they stand.
HeaderHolds(k, method, crc, comp, uncomp) ==
    /\ LhMethod(mem, log[k].wrH) = method
    /\ LhCrc(mem, log[k].wrH) = crc
    /\ LhCompSize(mem, log[k].wrH) = comp
    /\ LhUncompSize(mem, log[k].wrH) = uncomp
PayloadIs(k, bytes) ==
    /\ Bytes(mem, log[k].wrP, Len(bytes)) = bytes
    /\ log[k].wrP = log[k].wrH + log[k].hs
    /\ log[k].wrEnd = log[k].wrP + Len(bytes)
\* The representation of round k by the priority of the claim:
\* "raw" iff U <= C and U <= O, else "recompressed" iff C < O, else "keep".
Priority(k) ==
    LET U == Len(Minified(k))
        C == Len(ZopfliDeflate(Minified(k)))
        O == Len(log[k].src)
    IN IF U <= C /\ U <= O THEN "raw"
       ELSE IF C < O THEN "recompressed" ELSE "keep"
\* The local header and the payload of round k match the representation.
LocalMatches(k) ==
    LET min == Minified(k)
        out == ZopfliDeflate(min)
        data == tinfl_decompress(log[k].src).data
    IN /\ log[k].branch = Priority(k)
       /\ log[k].branch = "raw"
            => /\ HeaderHolds(k, 0, mz_crc32(min), Len(min), Len(min))
               /\ PayloadIs(k, min)
       /\ log[k].branch = "recompressed"
            => /\ HeaderHolds(k, 8, mz_crc32(min), Len(out), Len(min))
               /\ PayloadIs(k, out)
       /\ log[k].branch = "keep"
            => /\ HeaderHolds(k, 8, mz_crc32(data), Len(log[k].src), Len(data))
               /\ Bytes(mem, log[k].wrH, log[k].hs) = log[k].hdr
               /\ PayloadIs(k, log[k].src)

\* C9 as it was claimed: for a verified deflate entry the representation
\* follows the priority, the write cursor advances by the payload written,
\* and method, crc32 and sizes of the local header and of the directory
\* record both match it.
C9_BothMatch ==
    \A k \in 1..Len(log) :
        Verified(k)
        => /\ LocalMatches(k)
           /\ Described(cd_headers[k])
                = <<LhMethod(mem, log[k].wrH), LhCrc(mem, log[k].wrH),
                    LhCompSize(mem, log[k].wrH), LhUncompSize(mem, log[k].wrH)>>

\* C9, amended: the representation follows the priority, the local header
\* matches it and the write cursor advances by the payload written; the
\* directory record gets method 0, crc32 and both sizes on store, crc32 and
\* both sizes (not the method) on recompression, and is left as the input
\* directory had it when the original stream is kept.
C9_RepresentationChosen ==
    \A k \in 1..Len(log) :
        Verified(k)
        => /\ LocalMatches(k)
           /\ log[k].branch = "raw"
                => Described(cd_headers[k])
                     = <<0, LhCrc(mem, log[k].wrH), LhCompSize(mem, log[k].wrH),
                         LhUncompSize(mem, log[k].wrH)>>
           /\ log[k].branch = "recompressed"
                => Described(cd_headers[k])
                     = <<CdMethod(log[k].cdIn), LhCrc(mem, log[k].wrH),
                         LhCompSize(mem, log[k].wrH),
                         LhUncompSize(mem, log[k].wrH)>>
           /\ log[k].branch = "keep"
                => Described(cd_headers[k]) = Described(log[k].cdIn)
\* A verified entry was written as a shorter recompressed stream.
C9_Witness ==
    /\ pc = "done"
    /\ \E k \in 1..Len(log) :
          /\ Verified(k) /\ log[k].branch = "recompressed"
          /\ Len(ZopfliDeflate(Minified(k))) < Len(log[k].src)
          /\ Len(Minified(k)) > Len(ZopfliDeflate(Minified(k)))

\* The file name the rewritten local header of round k holds.
LocalName(k) == Bytes(mem, log[k].wrH + LocalHeaderFixed, LhFilenameLen(mem, log[k].wrH))
\* The file name of the k-th record of the rewritten directory.
RecordName(k) ==
    Bytes(mem, DirRecords[k] + SizeofCDHeader, U16(mem, DirRecords[k] + 28))

HasStub == input.stub # <<>>
\* Zip::Leanify on archive A alone, under the same settings.
Alone == Run(Start(input.arch, env))
\* The result is S followed by the result for A alone, with the same
\* directory records and EOCD fields relative to the base offset.
SameBehindStub ==
    LET n == Len(input.stub)
        r == Alone
    IN /\ size_ = n + r.size_
       /\ Bytes(mem, 0, n) = input.stub
       /\ Bytes(mem, n, r.size_) = Bytes(r.mem, 0, r.size_)
       /\ base_offset = n + r.base_offset
       /\ cd_headers = r.cd_headers
       /\ eocd = r.eocd
       /\ [k \in 1..Len(log) |-> log[k].branch]
            = [k \in 1..Len(r.log) |-> r.log[k].branch]

\* C6 as it was claimed: for every stub and every valid archive the result
\* is the stub followed by the result for the archive alone.
C6_AnyStub == (pc = "done" /\ HasStub) => SameBehindStub

\* What the detection of lines 85-109 relies on: A starts with a local header
\* and its first directory record is where the EOCD says; S holds no
\* local-header magic and ends at least 4 bytes before the recorded directory
\* offset; and the stubbed file has no directory magic at that offset.
Detectable ==
    LET A == input.arch
        S == input.stub
        off == EocdCdOffset(Bytes(A, EocdPosition(A), SizeofEOCD))
    IN /\ ~Rejected(A)
       /\ DeclaredRecords(A) > 0
       /\ MagicAt(A, 0, header_magic)
       /\ MagicAt(A, off, cd_magic)
       /\ Search(S, 0, Len(S), header_magic) = Len(S)
       /\ Len(S) + 4 <= off
       /\ ~MagicAt(input.buf, off, cd_magic)

\* C6, amended: the result is S followed by the result for A alone whenever
\* the stub is detectable in the sense above.
C6_DetectableStub == (pc = "done" /\ HasStub /\ Detectable) => SameBehindStub
\* A stubbed archive was compacted with the stub as its base offset.
C6_Witness ==
    /\ pc = "done" /\ HasStub /\ Detectable
    /\ base_offset = Len(input.stub)
    /\ Compacted # {}
    /\ size_ < size

====
